---- MODULE Spec2Model ----
(***************************************************************************)
(* A model of the dep-fc pipeline: the bit-mask classifier                 *)
(* FCPercentiles.native_transform, the int8 -> uint8 conversion of         *)
(* FCProcessor.process, the task lister list.main and the task entry       *)
(* points with their run log and scene-level object store.                 *)
(*                                                                         *)
(* A dataset is modelled as one time step of a one-dimensional row of      *)
(* pixels: every operation of native_transform is independent per time     *)
(* step, and the only spatial operation (the dilation of mask_cleanup) is  *)
(* modelled along the row.  An optional parameter (None in the source) is  *)
(* a sequence of length 0, a set one is a sequence holding its value(s).   *)
(***************************************************************************)
EXTENDS Integers, Sequences, FiniteSets, TLC

VARIABLES
  cfg,      \* native_transform: the processor parameters (self.*)
  xx,       \* native_transform: the input dataset
  ds,       \* native_transform: the fractional-cover bands being transformed
  valid,    \* native_transform: the valid mask
  wet,      \* native_transform: the wet mask
  pc,       \* native_transform: position in the method
  unmixed,  \* FCProcessor.process: what super().compute returned
  output,   \* FCProcessor.process: the dataset being converted
  pos,      \* FCProcessor.process: position of the loop over the variables
  log,      \* list.main: the run log of each year, as parsed
  req,      \* list.main: the arguments of the call
  params,   \* list.main: what is dumped to stdout
  proc,     \* task entry points: the locals and position of each process
  store,    \* the scene-level objects in the bucket
  runlog    \* the rows each process appended to the CSV run log

ntvars == <<cfg, xx, ds, valid, wet, pc>>

fcvars == <<unmixed, output, pos>>

listvars == <<log, req, params>>

runvars == <<proc, store, runlog>>

vars == <<cfg, xx, ds, valid, wet, pc, unmixed, output, pos, log, req, params,
          proc, store, runlog>>

(***************************************************************************)
(* Program constants                                                       *)
(***************************************************************************)
NODATA == 255

OLD_NODATA == -1

BAD_BITS_MASK == [cloud |-> 64, cloud_shadow |-> 32]

Keys == {"cloud", "cloud_shadow"}

Bands == {"bs", "pv", "npv"}

(***************************************************************************)
(* Bounds                                                                  *)
(***************************************************************************)
NPix == 2

MaxRadius == 1

NTiles == 3

MaxRows == 2

MaxYears == 2

MaxLimit == 2

NProcs == 2

NScenes == 1

Pixel == 1..NPix

None == << >>

(***************************************************************************)
(* 8-bit unsigned arithmetic                                               *)
(***************************************************************************)
Bit(w, k) == (w \div (2 ^ k)) % 2

And8(a, b) ==
  LET f[k \in 0..8] ==
        IF k = 8 THEN 0 ELSE Bit(a, k) * Bit(b, k) * (2 ^ k) + f[k + 1]
  IN  f[0]

Invert8(a) == 255 - a

Abs(n) == IF n < 0 THEN -n ELSE n

(***************************************************************************)
(* Inputs: the pixels a merged fc + wofl load can hold, and the processor  *)
(* parameters of StatsFCP                                                  *)
(***************************************************************************)
Px(w, b, p, n, u) == [water |-> w, bs |-> b, pv |-> p, npv |-> n, ue |-> u]

PixelKinds ==
  { Px(0, 10, 80, 5, 1),
    Px(0, 200, 100, 0, 1),
    Px(0, 110, 5, 5, 9),
    Px(0, 255, 50, 20, 1),
    Px(0, 40, 40, 20, 5),
    Px(128, 10, 80, 5, 1),
    Px(64, 30, 30, 30, 2),
    Px(32, 30, 30, 30, 2),
    Px(16, 10, 80, 5, 1),
    Px(144, 10, 80, 5, 1),
    Px(255, 255, 255, 255, 255) }

\* a filter of radius 0 leaves the raw mask as it is
Radii == 0..MaxRadius

Filters == {None} \cup {<<r>> : r \in Radii}

Configs ==
  [cloud_filters  : [Keys -> Filters],
   ue_threshold   : {None, <<5>>},
   max_sum_limit  : {None, <<120>>},
   clip_range     : {None, <<0, 100>>, <<20, 254>>}]

(***************************************************************************)
(* FCPercentiles.native_transform                                          *)
(***************************************************************************)
\* the water value compared without discarding the terrain bit
MaskOfKeepsSlope(w) == w

\* mask = xx["water"] & ~np.uint8(1 << 4)
MaskOf(w) == And8(w, Invert8(16))

\* raw_mask = (xx["water"] & val) > 0
raw_mask(water, key) == [i \in Pixel |-> And8(water[i], BAD_BITS_MASK[key]) > 0]

\* the raw mask subtracted without its dilation
mask_cleanup_raw(raw, r) == raw

\* odc.algo.mask_cleanup with one ("dilation", r) filter: a pixel is set when
\* a set pixel lies within r of it
mask_cleanup(raw, r) ==
  [i \in Pixel |-> \E j \in Pixel : Abs(i - j) <= r /\ raw[j]]

\* the loop over BAD_BITS_MASK: the union of the dilated masks of the labels
\* that have a filter configured
Dilated(water, cloud_filters) ==
  [i \in Pixel |->
     \E key \in Keys :
        /\ cloud_filters[key] # None
        /\ mask_cleanup(raw_mask(water, key), cloud_filters[key][1])[i]]

\* the dry and wet sentinels exchanged
ValidAfterMaskSwapped(x, c) ==
  [i \in Pixel |->
     /\ MaskOf(x.water[i]) = 128
     /\ ~Dilated(x.water, c.cloud_filters)[i]
     /\ (c.ue_threshold # None => x.ue[i] < c.ue_threshold[1])]

\* the threshold taken as inclusive
ValidAfterMaskInclusive(x, c) ==
  [i \in Pixel |->
     /\ MaskOf(x.water[i]) = 0
     /\ ~Dilated(x.water, c.cloud_filters)[i]
     /\ (c.ue_threshold # None => x.ue[i] <= c.ue_threshold[1])]

ValidAfterMask(x, c) ==
  [i \in Pixel |->
     /\ MaskOf(x.water[i]) = 0
     /\ ~Dilated(x.water, c.cloud_filters)[i]
     /\ (c.ue_threshold # None => x.ue[i] < c.ue_threshold[1])]

\* the wet sentinel taken for the cloud bit
WetAfterMaskWrongBit(x, c) ==
  [i \in Pixel |->
     /\ MaskOf(x.water[i]) = 64
     /\ ~Dilated(x.water, c.cloud_filters)[i]]

WetAfterMask(x, c) ==
  [i \in Pixel |->
     /\ MaskOf(x.water[i]) = 128
     /\ ~Dilated(x.water, c.cloud_filters)[i]]

\* keep_good_only(xx[band], ~mask, nodata=0) for one value
band_data(v) == IF v = NODATA THEN 0 ELSE v

\* sum_bands = 0 + band_data(bs) + band_data(pv) + band_data(npv) on uint8
sum_bands(d, i) ==
  (band_data(d["bs"][i]) + band_data(d["pv"][i]) + band_data(d["npv"][i])) % 256

\* np.clip(v, lo, hi)
Clip(v, lo, hi) == IF v < lo THEN lo ELSE IF v > hi THEN hi ELSE v

\* the clip without the restore of the masked values
ClipBandNoRestore(v, range) == Clip(v, range[1], range[2])

\* xx[band] = clipped.where(~mask, NODATA)
ClipBand(v, range) == IF v = NODATA THEN NODATA ELSE Clip(v, range[1], range[2])

\* if self.max_sum_limit is not None: valid &= sum_bands < self.max_sum_limit
ValidAfterSum(v, d, c) ==
  [i \in Pixel |->
     v[i] /\ (c.max_sum_limit # None => sum_bands(d, i) < c.max_sum_limit[1])]

MaskStep ==
  /\ pc = "mask"
  /\ valid' = ValidAfterMask(xx, cfg)
  /\ wet' = WetAfterMask(xx, cfg)
  /\ ds' = [b \in Bands |-> xx[b]]
  /\ pc' = "sumclip"
  /\ UNCHANGED <<cfg, xx, fcvars, listvars, runvars>>

SumClipStep ==
  /\ pc = "sumclip"
  /\ IF cfg.max_sum_limit # None \/ cfg.clip_range # None
       THEN /\ ds' = IF cfg.clip_range # None
                       THEN [b \in Bands |->
                               [i \in Pixel |-> ClipBand(ds[b][i], cfg.clip_range)]]
                       ELSE ds
            /\ valid' = ValidAfterSum(valid, ds, cfg)
       ELSE UNCHANGED <<ds, valid>>
  /\ pc' = "keep"
  /\ UNCHANGED <<cfg, xx, wet, fcvars, listvars, runvars>>

\* the masked values set to 0 instead of the nodata value
keep_good_only_zero(v, good, nodata) == IF good THEN v ELSE 0

\* odc.algo.keep_good_only for one value: the value where the mask is set,
\* nodata elsewhere
keep_good_only(v, good, nodata) == IF good THEN v ELSE nodata

\* xx = keep_good_only(xx, valid, nodata=NODATA)
KeepGoodStep ==
  /\ pc = "keep"
  /\ ds' = [b \in Bands |->
              [i \in Pixel |-> keep_good_only(ds[b][i], valid[i], NODATA)]]
  /\ pc' = "done"
  /\ UNCHANGED <<cfg, xx, valid, wet, fcvars, listvars, runvars>>

IdleNT ==
  /\ cfg = [cloud_filters |-> [key \in Keys |-> None], ue_threshold |-> None,
            max_sum_limit |-> None, clip_range |-> None]
  /\ xx = [v \in {"water", "bs", "pv", "npv", "ue"} |-> [i \in Pixel |-> NODATA]]
  /\ ds = [b \in Bands |-> [i \in Pixel |-> NODATA]]
  /\ valid = [i \in Pixel |-> FALSE]
  /\ wet = [i \in Pixel |-> FALSE]
  /\ pc = "done"

IdleFC ==
  /\ unmixed = [v \in {"bs", "pv", "npv", "ue"} |-> OLD_NODATA]
  /\ output = [v \in {"bs", "pv", "npv", "ue"} |-> NODATA]
  /\ pos = 5

IdleList ==
  /\ log = [y \in {2020, 2021} |-> {}]
  /\ req = None
  /\ params = << >>

IdleRun ==
  /\ proc = [p \in 1..NProcs |->
              [entry |-> "none", pc |-> "idle", flag |-> "False", n |-> 0, i |-> 0,
               seen |-> FALSE, paths |-> << >>, failed |-> FALSE, exc |-> "none",
               result |-> "none"]]
  /\ store = [stac |-> {}, rasters |-> [sc \in 1..NScenes |-> 0],
              stacs |-> [sc \in 1..NScenes |-> 0], errors |-> {}]
  /\ runlog = [p \in 1..NProcs |-> << >>]

InitNT ==
  /\ IdleFC
  /\ IdleList
  /\ IdleRun
  /\ cfg \in Configs
  /\ \E px \in [Pixel -> PixelKinds] :
        xx = [water |-> [i \in Pixel |-> px[i].water],
              bs    |-> [i \in Pixel |-> px[i].bs],
              pv    |-> [i \in Pixel |-> px[i].pv],
              npv   |-> [i \in Pixel |-> px[i].npv],
              ue    |-> [i \in Pixel |-> px[i].ue]]
  /\ ds = [b \in Bands |-> [i \in Pixel |-> 0]]
  /\ valid = [i \in Pixel |-> FALSE]
  /\ wet = [i \in Pixel |-> FALSE]
  /\ pc = "mask"

NextNT == MaskStep \/ SumClipStep \/ KeepGoodStep

SpecNT == InitNT /\ [][NextNT]_vars

\* the same transform on datasets whose first pixel takes every unsigned
\* 8-bit water value, next to clear, cloud and shadow pixels
Uint8 == 0..255

NeighbourKinds ==
  { Px(0, 10, 80, 5, 1), Px(64, 30, 30, 30, 2), Px(32, 30, 30, 30, 2) }

InitNTW ==
  /\ IdleFC
  /\ IdleList
  /\ IdleRun
  /\ cfg \in {c \in Configs : c.clip_range \in {None, <<0, 100>>}}
  /\ \E w \in Uint8 : \E nb \in [Pixel \ {1} -> NeighbourKinds] :
        LET px == [i \in Pixel |-> IF i = 1 THEN Px(w, 10, 80, 5, 1) ELSE nb[i]]
        IN  xx = [water |-> [i \in Pixel |-> px[i].water],
                  bs    |-> [i \in Pixel |-> px[i].bs],
                  pv    |-> [i \in Pixel |-> px[i].pv],
                  npv   |-> [i \in Pixel |-> px[i].npv],
                  ue    |-> [i \in Pixel |-> px[i].ue]]
  /\ ds = [b \in Bands |-> [i \in Pixel |-> 0]]
  /\ valid = [i \in Pixel |-> FALSE]
  /\ wet = [i \in Pixel |-> FALSE]
  /\ pc = "mask"

SpecNTW == InitNTW /\ [][NextNT]_vars

NoDilation == \A key \in Keys : cfg.cloud_filters[key] = None

\* C1 (as stated): where water == 0 the outputs are valid = true and
\* wet = false whenever no cloud/shadow dilation is configured.
C1_Original ==
  (pc = "done" /\ NoDilation) =>
     \A i \in Pixel : xx.water[i] = 0 => (valid[i] /\ ~wet[i])

\* C1 (amended): where water == 0 the output wet is false, and the output
\* valid is true when no cloud/shadow dilation, no unmixing-error threshold
\* and no max-sum limit is configured.
C1_Amended ==
  pc = "done" =>
     \A i \in Pixel :
        xx.water[i] = 0 =>
           /\ ~wet[i]
           /\ (NoDilation /\ cfg.ue_threshold = None /\ cfg.max_sum_limit = None)
                 => valid[i]

C1_Witness ==
  /\ pc = "done"
  /\ NoDilation /\ cfg.ue_threshold = None /\ cfg.max_sum_limit = None
  /\ \E i \in Pixel : xx.water[i] = 0 /\ valid[i] /\ ~wet[i]

\* C2 (as stated): where water == 128 the outputs are wet = true and
\* valid = false.
C2_Original ==
  pc = "done" =>
     \A i \in Pixel : xx.water[i] = 128 => (wet[i] /\ ~valid[i])

\* C2 (amended): where water == 128 the output valid is false, and the output
\* wet is true when no cloud/shadow dilation is configured.
C2_Amended ==
  pc = "done" =>
     \A i \in Pixel :
        xx.water[i] = 128 => (~valid[i] /\ (NoDilation => wet[i]))

C2_Witness ==
  /\ pc = "done"
  /\ NoDilation
  /\ \E i \in Pixel : xx.water[i] = 128 /\ wet[i] /\ ~valid[i]

\* C3: with a max-sum limit or a clip range configured, a fractional-cover
\* value that is NODATA before the sum-limit/clip-range step is NODATA
\* after it.
C3_NodataFixedPoint ==
  [][(pc = "sumclip" /\ pc' = "keep"
        /\ (cfg.max_sum_limit # None \/ cfg.clip_range # None))
       => \A b \in Bands : \A i \in Pixel :
             ds[b][i] = NODATA => ds'[b][i] = NODATA]_vars

C3_Witness ==
  /\ pc = "keep"
  /\ cfg.clip_range # None
  /\ \E b \in Bands : \E i \in Pixel : xx[b][i] = NODATA /\ ds[b][i] = NODATA
  /\ \E b \in Bands : \E i \in Pixel : ds[b][i] # xx[b][i]

\* C11: in the output every pixel where valid is false has bs, pv and npv
\* equal to NODATA; a pixel whose water value has the cloud bit (bit 6) or the
\* cloud-shadow bit (bit 5) set has valid false and all three bands NODATA.
C11_InvalidIsNodata ==
  pc = "done" =>
     \A i \in Pixel :
        /\ ~valid[i] => \A b \in Bands : ds[b][i] = NODATA
        /\ (Bit(xx.water[i], 6) = 1 \/ Bit(xx.water[i], 5) = 1) =>
              (~valid[i] /\ \A b \in Bands : ds[b][i] = NODATA)

C11_Witness ==
  /\ pc = "done"
  /\ ~NoDilation
  /\ xx.water[1] = 64 /\ xx.bs[1] # NODATA
  /\ ~valid[1] /\ \A b \in Bands : ds[b][1] = NODATA

\* a pixel within the configured radius of a pixel that has the bit of a
\* label set, for some label with a filter configured
NearBadPixel(i) ==
  \E j \in Pixel :
     \/ /\ cfg.cloud_filters["cloud"] # None
        /\ Abs(i - j) <= cfg.cloud_filters["cloud"][1]
        /\ Bit(xx.water[j], 6) = 1
     \/ /\ cfg.cloud_filters["cloud_shadow"] # None
        /\ Abs(i - j) <= cfg.cloud_filters["cloud_shadow"][1]
        /\ Bit(xx.water[j], 5) = 1

\* clear and dry: no bit set, the terrain bit left aside
ClearDry(w) == w \in {0, 16}

\* clear and wet: only bit 7 set, the terrain bit left aside
ClearWet(w) == w \in {128, 144}

\* C12: with an unmixing-error threshold and no sum limit or clip range, a
\* pixel is valid iff it is clear and dry, outside every dilated cloud/shadow
\* mask and has ue strictly below the threshold; at a valid pixel bs, pv and
\* npv are output unchanged; the output has no ue band, with or without a
\* threshold.
C12_UeThreshold ==
  pc = "done" =>
     /\ "ue" \notin DOMAIN ds
     /\ (cfg.ue_threshold # None /\ cfg.max_sum_limit = None /\ cfg.clip_range = None)
          => \A i \in Pixel :
                /\ valid[i] <=> /\ ClearDry(xx.water[i])
                                /\ ~NearBadPixel(i)
                                /\ xx.ue[i] < cfg.ue_threshold[1]
                /\ valid[i] => \A b \in Bands : ds[b][i] = xx[b][i]

\* the scenario water=0, bs=10, pv=80, npv=5, ue=1 under the threshold 5
C12_Witness ==
  /\ pc = "done"
  /\ cfg.ue_threshold = <<5>> /\ cfg.max_sum_limit = None /\ cfg.clip_range = None
  /\ \E i \in Pixel :
        /\ xx.water[i] = 0 /\ xx.bs[i] = 10 /\ xx.pv[i] = 80 /\ xx.npv[i] = 5
        /\ xx.ue[i] = 1
        /\ valid[i] /\ ds["bs"][i] = 10 /\ ds["pv"][i] = 80 /\ ds["npv"][i] = 5
  /\ \E i \in Pixel : xx.water[i] = 0 /\ xx.ue[i] = 5 /\ ~valid[i]

\* the integer sum of bs, pv and npv of a pixel, a NODATA value counted as 0
TrueSum(i) ==
  LET val(b) == IF xx[b][i] = NODATA THEN 0 ELSE xx[b][i]
  IN  val("bs") + val("pv") + val("npv")

\* C13: with a max-sum limit configured and the bands loaded as unsigned
\* 8-bit, a pixel is valid only if the integer sum of its bs, pv and npv, a
\* NODATA value counted as 0, is strictly below the limit.
C13_SumBelowLimit ==
  (pc = "done" /\ cfg.max_sum_limit # None) =>
     \A i \in Pixel : valid[i] => TrueSum(i) < cfg.max_sum_limit[1]

\* C14: for each label with a dilation filter configured, every pixel within
\* the configured radius of a pixel that has the bit of the label set is
\* neither valid nor wet; a pixel that no configured label reaches is wet
\* exactly when it is clear and wet and (with no unmixing-error threshold and
\* no sum limit) valid exactly when it is clear and dry, whatever bits of
\* labels without a filter its neighbours have.
C14_Dilation ==
  pc = "done" =>
     \A i \in Pixel :
        /\ NearBadPixel(i) => (~valid[i] /\ ~wet[i])
        /\ ~NearBadPixel(i) =>
              /\ wet[i] <=> ClearWet(xx.water[i])
              /\ (cfg.ue_threshold = None /\ cfg.max_sum_limit = None)
                    => (valid[i] <=> ClearDry(xx.water[i]))

\* a clear wet pixel next to a cloud pixel, the cloud label dilated by 1
C14_Witness ==
  /\ pc = "done"
  /\ cfg.cloud_filters["cloud"] = <<1>>
  /\ \E i \in Pixel : \E j \in Pixel :
        /\ Abs(i - j) = 1
        /\ xx.water[j] = 64 /\ xx.water[i] = 128
        /\ ~wet[i] /\ ~valid[i]

\* the input with bit 4 of the water value toggled at the pixels of T
ToggleBit4(w) == IF Bit(w, 4) = 1 THEN w - 16 ELSE w + 16

Toggled(T) ==
  [xx EXCEPT !.water = [i \in Pixel |->
                          IF i \in T THEN ToggleBit4(xx.water[i]) ELSE xx.water[i]]]

\* C15: the terrain high-slope flag (bit 4 of water) never changes the
\* result: valid and wet are what they would be with bit 4 toggled at any
\* pixel, for every unsigned 8-bit water value; so, where no dilated mask
\* reaches and no threshold or sum limit applies, water = 16 is valid and
\* water = 144 is wet.
C15_SlopeIgnored ==
  pc = "done" =>
     /\ \A t \in Pixel :
           /\ valid = ValidAfterSum(ValidAfterMask(Toggled({t}), cfg),
                                    [b \in Bands |-> xx[b]], cfg)
           /\ wet = WetAfterMask(Toggled({t}), cfg)
     /\ \A i \in Pixel :
           ~NearBadPixel(i) =>
              /\ xx.water[i] = 144 => wet[i]
              /\ (xx.water[i] = 16 /\ cfg.ue_threshold = None
                     /\ cfg.max_sum_limit = None) => valid[i]

C15_Witness ==
  /\ pc = "done"
  /\ xx.water[1] = 16 /\ valid[1] /\ ~wet[1]
  /\ \A b \in Bands : ds[b][1] = xx[b][1]

(***************************************************************************)
(* FCProcessor.process: int8 with nodata -1 to uint8 with nodata 255       *)
(***************************************************************************)
Int8 == -128..127

FCVars == <<"bs", "pv", "npv", "ue">>

\* .astype("int16")
AsInt16(v) == ((v + 32768) % 65536) - 32768

\* .astype("uint8")
AsUint8(v) == v % 256

\* a saturating conversion instead of the wrapping astype
ConvertValueSaturating(v) ==
  IF v = OLD_NODATA THEN NODATA ELSE IF v < 0 THEN 0 ELSE v

\* output[var].astype("int16").where(output[var] != OLD_NODATA, NODATA).astype("uint8")
ConvertValue(v) == AsUint8(IF v # OLD_NODATA THEN AsInt16(v) ELSE NODATA)

\* one iteration of: for var in output
ConvertVar ==
  /\ pos <= Len(FCVars)
  /\ output' = [output EXCEPT ![FCVars[pos]] = ConvertValue(output[FCVars[pos]])]
  /\ pos' = pos + 1
  /\ UNCHANGED <<unmixed, ntvars, listvars, runvars>>

InitFC ==
  /\ IdleNT
  /\ IdleList
  /\ IdleRun
  /\ \E focus \in 1..Len(FCVars), v \in Int8, w \in {OLD_NODATA, 0, 100} :
        unmixed = [var \in {"bs", "pv", "npv", "ue"} |->
                     IF var = FCVars[focus] THEN v ELSE w]
  /\ output = unmixed
  /\ pos = 1

NextFC == ConvertVar

SpecFC == InitFC /\ [][NextFC]_vars

FCDone == pos > Len(FCVars)

FCVarSet == {FCVars[n] : n \in 1..Len(FCVars)}

\* C4 (as stated): the sentinel -1 becomes 255 and every other signed 8-bit
\* value is output unchanged.
C4_Original ==
  FCDone =>
     \A var \in FCVarSet :
        output[var] = IF unmixed[var] = -1 THEN 255 ELSE unmixed[var]

\* C4 (amended): the sentinel -1 becomes 255, every value in 0..127 is output
\* unchanged, and a negative value v other than -1 is output as v + 256; the
\* output is in 0..255 and is 255 only for the sentinel.
C4_Amended ==
  FCDone =>
     \A var \in FCVarSet :
        /\ output[var] \in 0..255
        /\ unmixed[var] = -1 => output[var] = 255
        /\ unmixed[var] \in 0..127 => output[var] = unmixed[var]
        /\ unmixed[var] \in (-128)..(-2) => output[var] = unmixed[var] + 256
        /\ output[var] = 255 => unmixed[var] = -1

C4_Witness ==
  /\ FCDone
  /\ \E var \in FCVarSet : unmixed[var] = -1 /\ output[var] = 255
  /\ \E var \in FCVarSet : unmixed[var] = -2 /\ output[var] = 254

(***************************************************************************)
(* list.main                                                               *)
(***************************************************************************)
Years == {2020, 2021}

Statuses == {"complete", "error"}

\* the index of the target grid: (column, row) or (path, row)
GridIndex == [t \in 1..NTiles |-> <<t, t + 10>>]

Tiles == {GridIndex[t] : t \in 1..NTiles}

LogRows == [index : Tiles, status : Statuses]

\* dep_tools.parsers.bool_parser
bool_parser(raw) == raw # "False"

\* cloud_logger.filter_by_log: the tiles of the grid that the log does not
\* settle; with retry_errors only the "complete" rows settle a tile
filter_by_log(grid, rows, retry_errors) ==
  LET settled == IF retry_errors
                   THEN {r.index : r \in {q \in rows : q.status = "complete"}}
                   ELSE {r.index : r \in rows}
  IN  SelectSeq(grid, LAMBDA t : t \notin settled)

\* the dict built for one region of product(grid_subset.index, [year])
Entry(grid, t, year) ==
  IF grid = "dep" THEN [column |-> t[1], row |-> t[2], year |-> year]
                  ELSE [path |-> t[1], row |-> t[2], year |-> year]

these_params(grid, rows, retry_errors, year) ==
  LET grid_subset == filter_by_log(GridIndex, rows, retry_errors)
  IN  [i \in 1..Len(grid_subset) |-> Entry(grid, grid_subset[i], year)]

\* params = these_params instead of params += these_params
all_params_last_only(grid, logs, retry_errors, years) ==
  IF years = << >> THEN << >>
  ELSE these_params(grid, logs[years[Len(years)]], retry_errors, years[Len(years)])

\* the loop over years: params += these_params
RECURSIVE all_params(_, _, _, _)
all_params(grid, logs, retry_errors, years) ==
  IF years = << >> THEN << >>
  ELSE these_params(grid, logs[Head(years)], retry_errors, Head(years))
         \o all_params(grid, logs, retry_errors, Tail(years))

\* params[0 : int(limit)]
Slice(s, n) ==
  LET stop == IF n >= 0 THEN (IF n < Len(s) THEN n ELSE Len(s))
                        ELSE (IF Len(s) + n > 0 THEN Len(s) + n ELSE 0)
  IN  SubSeq(s, 1, stop)

ListMain(years, limit, retry_errors, grid) ==
  /\ req = None
  /\ req' = <<[years |-> years, limit |-> limit, retry_errors |-> retry_errors,
               grid |-> grid]>>
  /\ LET all == all_params(grid, log, bool_parser(retry_errors), years)
     IN  params' = IF limit # None THEN Slice(all, limit[1]) ELSE all
  /\ UNCHANGED <<log, ntvars, fcvars, runvars>>

YearLists == UNION {[1..n -> Years] : n \in 0..MaxYears}

Limits == {None} \cup {<<n>> : n \in (-1)..MaxLimit}

InitList ==
  /\ IdleNT
  /\ IdleFC
  /\ IdleRun
  /\ \E R \in {S \in SUBSET (Years \X LogRows) : Cardinality(S) <= MaxRows} :
        log = [y \in Years |-> {r \in LogRows : <<y, r>> \in R}]
  /\ req = None
  /\ params = << >>

NextList ==
  \E years \in YearLists, limit \in Limits,
     retry_errors \in {"True", "False"}, grid \in {"dep", "ls"} :
     ListMain(years, limit, retry_errors, grid)

SpecList == InitList /\ [][NextList]_vars

HasRow(y, t, status) == [index |-> t, status |-> status] \in log[y]

\* the tiles the claim expects in the task list of a year
Expected(y, t, retry_errors) ==
  /\ ~HasRow(y, t, "complete")
  /\ HasRow(y, t, "error") => retry_errors

Count(s, e) == Cardinality({i \in 1..Len(s) : s[i] = e})

Bool(b) == IF b THEN 1 ELSE 0

RECURSIVE SumOver(_, _)
SumOver(S, f) ==
  IF S = {} THEN 0
  ELSE LET x == CHOOSE x \in S : TRUE IN f[x] + SumOver(S \ {x}, f)

\* how many entries the full list holds for tile t and year y
Want(r, y, t) == Count(r.years, y) * Bool(Expected(y, t, r.retry_errors # "False"))

WantTotal(r) ==
  SumOver(Years \X Tiles, [yt \in Years \X Tiles |-> Want(r, yt[1], yt[2])])

\* C6 (as stated): for each requested year the task list holds exactly one
\* entry for every tile without a "complete" row and none for a tile with
\* one; a tile with an error row is listed iff retry_errors is set.
C6_Original ==
  req # None =>
     \A y \in Years : \A t \in Tiles :
        Count(params, Entry(req[1].grid, t, y)) = Want(req[1], y, t)

\* C6 (amended): when no limit is given the task list holds, for each element
\* of years, exactly one entry for every tile without a "complete" row and
\* none for a tile with one, a tile with an error row being listed iff
\* retry_errors is set; with a limit n >= 0 the list is cut to its first n
\* entries.
C6_Amended ==
  req # None =>
     LET r == req[1] IN
       /\ r.limit = None =>
             \A y \in Years : \A t \in Tiles :
                Count(params, Entry(r.grid, t, y)) = Want(r, y, t)
       /\ (r.limit # None /\ r.limit[1] >= 0) =>
             /\ Len(params) = IF r.limit[1] < WantTotal(r) THEN r.limit[1]
                                                          ELSE WantTotal(r)
             /\ \A y \in Years : \A t \in Tiles :
                   Count(params, Entry(r.grid, t, y)) <= Want(r, y, t)
             /\ \A i \in 1..Len(params) :
                   \E y \in Years : \E t \in Tiles : params[i] = Entry(r.grid, t, y)

\* a grid with tiles that have a "complete" row and one tile with no row:
\* the task list is exactly the missing tile
C6_Witness ==
  /\ req # None
  /\ req[1].limit = None /\ req[1].years = <<2020>>
  /\ Cardinality({t \in Tiles : HasRow(2020, t, "complete")}) = 2
  /\ Len(params) = 1
  /\ \E t \in Tiles : /\ log[2020] \cap [index : {t}, status : Statuses] = {}
                       /\ params[1] = Entry(req[1].grid, t, 2020)

(***************************************************************************)
(* The task entry points: process_scenes_for_year.main ("year"),           *)
(* process_recent_landsat_scenes.process_tile ("recent") and               *)
(* create_annual_summary.main ("summary"), run by processes that work on   *)
(* the same tile and share the bucket.  The scenes of the tile are         *)
(* 1..NScenes; a search returns the first n of them.                       *)
(***************************************************************************)
Procs == 1..NProcs

Scenes == 1..NScenes

Entries == {"year", "recent", "summary"}

\* logger.info / logger.error: one row appended to the run log.  The log is
\* append-only and no entry point reads it, so it is kept as the rows of each
\* process's run
Logged(p, status) == [runlog EXCEPT ![p] = Append(@, status)]

Ended(p, how) == [proc[p] EXCEPT !.pc = "done", !.result = how]

\* a process is started on an entry point with its command line
Start(p, entry, flag) ==
  /\ proc[p].pc = "idle"
  /\ proc' = [proc EXCEPT ![p].entry = entry, ![p].flag = flag,
                          ![p].pc = IF entry = "summary" THEN "task" ELSE "search"]
  /\ UNCHANGED <<store, runlog, ntvars, fcvars, listvars>>

\* items = search_across_180(...) returns n items
SearchItems(p, n) ==
  /\ proc[p].pc = "search"
  /\ proc' = [proc EXCEPT ![p].n = n, ![p].i = 1, ![p].pc = "loop"]
  /\ UNCHANGED <<store, runlog, ntvars, fcvars, listvars>>

\* except EmptyCollectionError: logger.error([id, "no items found", e]); return None
SearchEmpty(p) ==
  /\ proc[p].pc = "search"
  /\ runlog' = Logged(p, "no items found")
  /\ proc' = [proc EXCEPT ![p] = [Ended(p, "returned") EXCEPT !.exc = "EmptyCollectionError"]]
  /\ UNCHANGED <<store, ntvars, fcvars, listvars>>

\* any other exception of the search is not caught
SearchError(p) ==
  /\ proc[p].pc = "search"
  /\ proc' = [proc EXCEPT ![p] = [Ended(p, "raised") EXCEPT !.exc = "Exception"]]
  /\ UNCHANGED <<store, runlog, ntvars, fcvars, listvars>>

\* process_tile: process_fc_scene(item, version=version) lacks the required
\* tile_id argument
RecentCall(p) ==
  /\ proc[p].pc = "loop" /\ proc[p].entry = "recent"
  /\ proc[p].i <= proc[p].n
  /\ proc' = [proc EXCEPT ![p] = [Ended(p, "raised") EXCEPT !.exc = "TypeError"]]
  /\ UNCHANGED <<store, runlog, ntvars, fcvars, listvars>>

\* the result of object_exists(bucket=BUCKET, key=itempath.stac_path(tile_id))
\* without the test
object_exists_ignored(st, sc) == FALSE

\* object_exists(bucket=BUCKET, key=itempath.stac_path(tile_id))
object_exists(st, sc) == sc \in st.stac

\* process_fc_scene up to the test: if not object_exists(...)
Check(p) ==
  /\ proc[p].pc = "loop" /\ proc[p].entry = "year"
  /\ proc[p].i <= proc[p].n
  /\ LET found == proc[p].i \in store.stac IN
       proc' = [proc EXCEPT ![p] =
                  IF object_exists(store, proc[p].i)
                    THEN [proc[p] EXCEPT !.seen = found, !.i = @ + 1,
                                         !.paths = Append(@, "None")]
                    ELSE [proc[p] EXCEPT !.seen = found, !.pc = "load"]]
  /\ UNCHANGED <<store, runlog, ntvars, fcvars, listvars>>

\* ItemStacTask.run: loader.load and processor.process
LoadProcess(p) ==
  /\ proc[p].pc = "load"
  /\ proc' = [proc EXCEPT ![p].pc = "write"]
  /\ UNCHANGED <<store, runlog, ntvars, fcvars, listvars>>

\* ItemStacTask.run: writer.write
WriteRasters(p) ==
  /\ proc[p].pc = "write"
  /\ store' = [store EXCEPT !.rasters[proc[p].i] = @ + 1]
  /\ proc' = [proc EXCEPT ![p].pc = "write_stac"]
  /\ UNCHANGED <<runlog, ntvars, fcvars, listvars>>

\* ItemStacTask.run: stac_creator.process, stac_writer.write and return
WriteStac(p) ==
  /\ proc[p].pc = "write_stac"
  /\ store' = [store EXCEPT !.stacs[proc[p].i] = @ + 1,
                            !.stac = @ \cup {proc[p].i}]
  /\ proc' = [proc EXCEPT ![p].pc = "loop", ![p].i = @ + 1,
                          ![p].paths = Append(@, "paths")]
  /\ UNCHANGED <<runlog, ntvars, fcvars, listvars>>

\* a step of ItemStacTask.run raises
TaskRaise(p) ==
  /\ proc[p].pc \in {"load", "write", "write_stac"}
  /\ proc' = [proc EXCEPT ![p].pc = "except", ![p].exc = "Exception",
                          ![p].failed = TRUE]
  /\ UNCHANGED <<store, runlog, ntvars, fcvars, listvars>>

\* except Exception: warn, s3_dump the traceback; the function ends and
\* returns None
Dump(p) ==
  /\ proc[p].pc = "except"
  /\ store' = [store EXCEPT !.errors = @ \cup {proc[p].i}]
  /\ proc' = [proc EXCEPT ![p].pc = "loop", ![p].i = @ + 1,
                          ![p].paths = Append(@, "None")]
  /\ UNCHANGED <<runlog, ntvars, fcvars, listvars>>

\* logger.info([id, "complete", paths]) after the list comprehension
LogComplete(p) ==
  /\ proc[p].pc = "loop"
  /\ proc[p].i > proc[p].n
  /\ runlog' = Logged(p, "complete")
  /\ proc' = [proc EXCEPT ![p] = Ended(p, "returned")]
  /\ UNCHANGED <<store, ntvars, fcvars, listvars>>

\* create_annual_summary.main: Task(...).run() returns; else: logger.info
SummaryComplete(p) ==
  /\ proc[p].pc = "task"
  /\ runlog' = Logged(p, "complete")
  /\ proc' = [proc EXCEPT ![p] = Ended(p, "returned")]
  /\ UNCHANGED <<store, ntvars, fcvars, listvars>>

\* the re-raise when the flag string is tested without its parser
SummaryEmptyTruthy(p) ==
  /\ proc[p].pc = "task"
  /\ runlog' = Logged(p, "empty collection error")
  /\ proc' = [proc EXCEPT ![p] =
                [Ended(p, IF proc[p].flag # "" THEN "raised" ELSE "returned")
                   EXCEPT !.exc = "EmptyCollectionError"]]
  /\ UNCHANGED <<store, ntvars, fcvars, listvars>>

\* except EmptyCollectionError as e: logger.error; if
\* raise_empty_collection_error: raise e
SummaryEmpty(p) ==
  /\ proc[p].pc = "task"
  /\ runlog' = Logged(p, "empty collection error")
  /\ proc' = [proc EXCEPT ![p] =
                [Ended(p, IF bool_parser(proc[p].flag) THEN "raised" ELSE "returned")
                   EXCEPT !.exc = "EmptyCollectionError"]]
  /\ UNCHANGED <<store, ntvars, fcvars, listvars>>

\* except Exception as e: logger.error([id, "error", e]); raise e
SummaryError(p) ==
  /\ proc[p].pc = "task"
  /\ runlog' = Logged(p, "error")
  /\ proc' = [proc EXCEPT ![p] =
                [Ended(p, "raised") EXCEPT !.exc = "Exception", !.failed = TRUE]]
  /\ UNCHANGED <<store, ntvars, fcvars, listvars>>

InitRun ==
  /\ IdleNT
  /\ IdleFC
  /\ IdleList
  /\ IdleRun

NextRun ==
  \E p \in Procs :
        \/ \E entry \in Entries :
              \E flag \in IF entry = "summary" THEN {"False", "True"} ELSE {"False"} :
                 Start(p, entry, flag)
        \/ \E n \in 1..NScenes : SearchItems(p, n)
        \/ SearchEmpty(p)
        \/ SearchError(p)
        \/ RecentCall(p)
        \/ Check(p)
        \/ LoadProcess(p)
        \/ WriteRasters(p)
        \/ WriteStac(p)
        \/ TaskRaise(p)
        \/ Dump(p)
        \/ LogComplete(p)
        \/ SummaryComplete(p)
        \/ SummaryEmpty(p)
        \/ SummaryError(p)

SpecRun == InitRun /\ [][NextRun]_vars


Done(p) == proc[p].pc = "done"

\* C7: when the task of create_annual_summary.main raises an empty-collection
\* error, an "empty collection error" row is logged and the run ends without
\* raising unless raise_empty_collection_error was requested; under the default
\* "False" it is not re-raised.
C7_EmptyCollection ==
  \A p \in Procs :
     (Done(p) /\ proc[p].entry = "summary" /\ proc[p].exc = "EmptyCollectionError") =>
        /\ runlog[p] = <<"empty collection error">>
        /\ proc[p].result = IF proc[p].flag = "True" THEN "raised" ELSE "returned"

C7_Witness ==
  \E p \in Procs :
     /\ Done(p) /\ proc[p].entry = "summary" /\ proc[p].exc = "EmptyCollectionError"
     /\ proc[p].flag = "False" /\ proc[p].result = "returned"
     /\ runlog[p] = <<"empty collection error">>

\* C8: an exception other than an empty-collection error raised while
\* processing is logged (to the error-log object in process_fc_scene, as an
\* "error" row in create_annual_summary.main) and then re-raised: the run that
\* met it ends by raising.
C8_LoggedAndReraised ==
  \A p \in Procs :
     (Done(p) /\ proc[p].failed) =>
        /\ proc[p].result = "raised"
        /\ proc[p].entry = "summary" => runlog[p] = <<"error">>
        /\ proc[p].entry = "year" => store.errors # {}

\* C9 (as stated): once the STAC object of a scene exists, no invocation,
\* concurrent ones included, writes its rasters or its STAC item.
C9_Original ==
  [][\A sc \in Scenes :
        sc \in store.stac =>
           /\ store'.rasters[sc] = store.rasters[sc]
           /\ store'.stacs[sc] = store.stacs[sc]]_vars

\* C9 (amended): an invocation of process_fc_scene loads and writes the
\* rasters and the STAC item of a scene only if the STAC object did not exist
\* when it made its existence test; an invocation that tests after the object
\* exists writes nothing, while one that tested before may still overwrite.
C9_Amended ==
  \A p \in Procs :
     proc[p].pc \in {"load", "write", "write_stac", "except"} => ~proc[p].seen

C9_Witness ==
  \E p \in Procs : \E q \in Procs :
     /\ p # q
     /\ Done(p) /\ proc[p].entry = "year" /\ proc[p].n = 1 /\ proc[p].seen
     /\ proc[p].paths = <<"None">>
     /\ Done(q) /\ proc[q].entry = "year" /\ proc[q].paths[1] = "paths"
     /\ store.rasters[1] = 1 /\ store.stacs[1] = 1

\* C10: every run of a task entry point has appended exactly one row to the
\* run log when it ends, normally or by raising, and the row is "complete"
\* only when the run succeeded.
C10_OneRowPerRun ==
  \A p \in Procs :
     Done(p) =>
        /\ Len(runlog[p]) = 1
        /\ runlog[p][1] = "complete" <=>
              (proc[p].result = "returned" /\ ~proc[p].failed /\ proc[p].exc = "none")

====
